---- MODULE Spec2Model ----
(***************************************************************************)
(* A model of pkg/util/tsearch/eval.go: the evaluation of a full-text      *)
(* search query tree (TSQuery) against a document vector (TSVector).       *)
(*                                                                         *)
(* EvalTSQuery is a pure function.  The state machine draws a vector and a *)
(* query in Init and applies EvalTSQuery in one step (action Eval).  The   *)
(* evaluator's functions are operators that follow the Go code statement   *)
(* by statement; Go's (value, error) results are records [ret, err].       *)
(*                                                                         *)
(* Data representation                                                     *)
(*   lexeme       a string, as the sequence of its bytes (small naturals); *)
(*                Go compares strings byte-wise, see StrLess.              *)
(*   tsPosition   in a vector: its position field, a uint16.  The weight   *)
(*                of a vector position is never read by the evaluator.     *)
(*                in a query term: a record [weight |-> w].                *)
(*   tsTerm       [lexeme, positions]                                      *)
(*   TSVector     a sequence of tsTerm, sorted and unique by lexeme        *)
(*   tsNode       [op |-> "invalid", term]            a leaf               *)
(*                [op |-> "not", l]                                        *)
(*                [op |-> "and" | "or", l, r]                              *)
(*                [op |-> "followedby", l, r, followedN]                   *)
(*                [op |-> "corrupt"]   an operator tag outside the enum    *)
(*   Go slices are 0-based, TLA+ sequences 1-based: an index i of the code *)
(*   reads element i + 1 of the sequence.                                  *)
(***************************************************************************)
EXTENDS Integers, Sequences, FiniteSets, TLC

VARIABLES
    v,        \* tsEvaluator.v: the document vector
    q,        \* tsEvaluator.q.root: the root of the query tree
    matched,  \* the bool EvalTSQuery returned
    err,      \* the error EvalTSQuery returned
    calls,    \* history: every evalWithinFollowedBy call that was made, [node, out]
    norms,    \* history: every sortAndUniqTSPositions call that was made, [in, out]
    pc        \* "start" before the call of EvalTSQuery, "done" after it

vars == <<v, q, matched, err, calls, norms, pc>>

(***************************************************************************)
(* Errors.                                                                 *)
(***************************************************************************)
Nil == "nil"
AssertionFailed == "AssertionFailedf: invalid operator"

(***************************************************************************)
(* Go strings: byte-wise comparison and strings.HasPrefix.                 *)
(***************************************************************************)
Min(a, b) == IF a < b THEN a ELSE b

StrLess(s, t) ==
    \E k \in 1..(Min(Len(s), Len(t)) + 1) :
        /\ \A i \in 1..(k - 1) : s[i] = t[i]
        /\ \/ k = Len(s) + 1 /\ k <= Len(t)
           \/ k <= Len(s) /\ k <= Len(t) /\ s[k] < t[k]

StrGeq(s, t) == ~StrLess(s, t)

HasPrefix(s, prefix) ==
    /\ Len(prefix) <= Len(s)
    /\ SubSeq(s, 1, Len(prefix)) = prefix

(***************************************************************************)
(* sort.Search(len(e.v), func(i) { return e.v[i].lexeme >= target }):      *)
(* the standard library's binary search over [0, n).                       *)
(***************************************************************************)
RECURSIVE SearchLoop(_, _, _)
SearchLoop(target, i, j) ==
    IF i < j
    THEN LET h == (i + j) \div 2
         IN  IF ~StrGeq(v[h + 1].lexeme, target)
             THEN SearchLoop(target, h + 1, j)
             ELSE SearchLoop(target, i, h)
    ELSE i

Search(target) == SearchLoop(target, 0, Len(v))

(***************************************************************************)
(* The leaf's prefix marker (eval.go:46-49 and 207-210).                   *)
(***************************************************************************)
PrefixMatch(node) ==
    /\ Len(node.term.positions) > 0
    /\ node.term.positions[1].weight = "weightStar"

(***************************************************************************)
(* Integer widths.  tsPosition.position is a uint16: the conversion        *)
(* uint16(x) of eval.go:180, 185 and 191 keeps the low 16 bits.            *)
(* math.MaxInt64 (eval.go:165, 175) stands for "larger than every adjusted *)
(* position"; TLC's integers are 32 bits wide, so the model uses the       *)
(* largest of those: every adjusted position of the model is below 2^18.   *)
(***************************************************************************)
Uint16(x) == x % 65536

MaxInt64 == 2147483647

(***************************************************************************)
(* maxTSVectorPositions: the cap on the length of a position list          *)
(* (eval.go:351-354, "Postgres silently truncates position lists to length *)
(* 256").                                                                  *)
(***************************************************************************)
maxTSVectorPositions == 256

(***************************************************************************)
(* Loops over position lists run up to several hundred iterations.  An     *)
(* operator that recurses once per iteration exhausts TLC's stack, so a    *)
(* loop of n iterations is run as its first n \div 2 iterations followed   *)
(* by the remaining ones: the same sequence of loop bodies, applied in the *)
(* same order, with a recursion depth of log n.                            *)
(*                                                                         *)
(* TLC re-evaluates a LET definition or an argument of a recursive         *)
(* operator at each of its uses.  Once({ e(x) : x \in {d} }) is e(d) with  *)
(* d evaluated a single time: "let x be d in e(x)".                        *)
(***************************************************************************)
Once(S) == CHOOSE x \in S : TRUE

(***************************************************************************)
(* sort.Slice(pos, func(i, j) { return pos[i].position < pos[j].position })*)
(* (eval.go:336-338): the list in ascending order of position, here by a   *)
(* merge sort.  sort.Slice is not stable, but only the position field is   *)
(* modelled, so the result is unique.                                      *)
(***************************************************************************)
SortMergeStep(a, b, s) ==
    IF s.i > Len(a) /\ s.j > Len(b)
    THEN s
    ELSE IF s.j > Len(b) \/ (s.i <= Len(a) /\ a[s.i] <= b[s.j])
         THEN [i |-> s.i + 1, j |-> s.j, out |-> Append(s.out, a[s.i])]
         ELSE [i |-> s.i, j |-> s.j + 1, out |-> Append(s.out, b[s.j])]

RECURSIVE SortMergeLoop(_, _, _, _)
SortMergeLoop(a, b, s, n) ==
    IF n = 0 THEN s
    ELSE IF n = 1 THEN SortMergeStep(a, b, s)
    ELSE Once({ SortMergeLoop(a, b, t, n - (n \div 2)) :
                    t \in {SortMergeLoop(a, b, s, n \div 2)} })

RECURSIVE SortByPosition(_)
SortByPosition(pos) ==
    IF Len(pos) <= 1
    THEN pos
    ELSE LET h == Len(pos) \div 2
         IN  Once({ SortMergeLoop(a1, b1, [i |-> 1, j |-> 1, out |-> <<>>],
                                  Len(pos)).out :
                        a1 \in {SortByPosition(SubSeq(pos, 1, h))},
                        b1 \in {SortByPosition(SubSeq(pos, h + 1, Len(pos)))} })

(***************************************************************************)
(* sortAndUniqTSPositions (eval.go:332-356).                               *)
(*   UniqStep    the body of the loop "for j := 1; j < len(pos); j++",     *)
(*               on the state [pos, lastUniqueIdx]                         *)
(*   UniqLoop    the iterations j = lo .. hi of that loop                  *)
(*   Truncate    the cut to maxTSVectorPositions entries                   *)
(***************************************************************************)
UniqStep(s, j) ==
    IF s.pos[j + 1] # s.pos[s.lastUniqueIdx + 1]
    THEN [pos |-> [s.pos EXCEPT ![s.lastUniqueIdx + 2] = s.pos[j + 1]],
          lastUniqueIdx |-> s.lastUniqueIdx + 1]
    ELSE s

RECURSIVE UniqLoop(_, _, _)
UniqLoop(s, lo, hi) ==
    IF lo > hi THEN s
    ELSE IF lo = hi THEN UniqStep(s, lo)
    ELSE LET mid == (lo + hi) \div 2
         IN  Once({ UniqLoop(t, mid + 1, hi) : t \in {UniqLoop(s, lo, mid)} })

\* Variant: truncation keeps the last entries of the list, not the first.
TruncateKeepsLast(pos) ==
    IF Len(pos) > maxTSVectorPositions
    THEN SubSeq(pos, Len(pos) - maxTSVectorPositions + 1, Len(pos))
    ELSE pos

Truncate(pos) ==
    IF Len(pos) > maxTSVectorPositions
    THEN SubSeq(pos, 1, maxTSVectorPositions)
    ELSE pos

SortAndUniqTSPositions(pos) ==
    IF Len(pos) <= 1
    THEN pos
    ELSE Once({ Truncate(SubSeq(s.pos, 1, s.lastUniqueIdx + 1)) :
                    s \in {UniqLoop([pos |-> SortByPosition(pos), lastUniqueIdx |-> 0],
                                    1, Len(pos) - 1)} })

(***************************************************************************)
(* tsPositionSet (eval.go:97-108) and emitMode (eval.go:111-124).  The     *)
(* emitMode bitfield is the set of its bits.                               *)
(***************************************************************************)
PositionSet(positions, width, invert) ==
    [positions |-> positions, width |-> width, invert |-> invert]

EmptyPositionSet == PositionSet(<<>>, 0, FALSE)

emitMatches == "emitMatches"
emitLeftUnmatched == "emitLeftUnmatched"
emitRightUnmatched == "emitRightUnmatched"

(***************************************************************************)
(* evalFollowedBy (eval.go:138-197).                                       *)
(*   FollowedByStep   one iteration of the "for" loop of eval.go:150-195,  *)
(*                    on the state [lIdx, rIdx, positions, done]; done is  *)
(*                    set by each of the three "break"s                    *)
(*   FollowedByLoop   n iterations; a finished loop stays finished         *)
(* Every iteration that does not break advances lIdx or rIdx, so           *)
(* len(l) + len(r) + 1 iterations reach the break.                         *)
(***************************************************************************)
FollowedByStep(in, s) ==
    IF s.done
    THEN s
    ELSE LET lExhausted == s.lIdx >= Len(in.l)
             rExhausted == s.rIdx >= Len(in.r)
             lPos == IF lExhausted THEN MaxInt64 ELSE in.l[s.lIdx + 1] + in.lOffset
             rPos == IF rExhausted THEN MaxInt64 ELSE in.r[s.rIdx + 1] + in.rOffset
         IN  IF lExhausted /\ rExhausted
             THEN [s EXCEPT !.done = TRUE]
             ELSE IF lExhausted /\ emitRightUnmatched \notin in.mode
             THEN [s EXCEPT !.done = TRUE]
             ELSE IF rExhausted /\ emitLeftUnmatched \notin in.mode
             THEN [s EXCEPT !.done = TRUE]
             ELSE IF lPos < rPos
             THEN [s EXCEPT !.positions =
                                IF emitLeftUnmatched \in in.mode
                                THEN Append(@, Uint16(lPos)) ELSE @,
                            !.lIdx = @ + 1]
             ELSE IF lPos = rPos
             THEN [s EXCEPT !.positions =
                                IF emitMatches \in in.mode
                                THEN Append(@, Uint16(rPos)) ELSE @,
                            !.lIdx = @ + 1,
                            !.rIdx = @ + 1]
             ELSE [s EXCEPT !.positions =
                                IF emitRightUnmatched \in in.mode
                                THEN Append(@, Uint16(rPos)) ELSE @,
                            !.rIdx = @ + 1]

RECURSIVE FollowedByLoop(_, _, _)
FollowedByLoop(in, s, n) ==
    IF n = 0 THEN s
    ELSE IF n = 1 THEN FollowedByStep(in, s)
    ELSE Once({ FollowedByLoop(in, t, n - (n \div 2)) :
                    t \in {FollowedByLoop(in, s, n \div 2)} })

EvalFollowedBy(lPositions, rPositions, lOffset, rOffset, mode) ==
    LET s0 == [lIdx |-> 0, rIdx |-> 0, positions |-> <<>>, done |-> FALSE]
    IN  Once({ PositionSet(FollowedByLoop(in, s0, Len(in.l) + Len(in.r) + 1).positions,
                           0, FALSE) :
                   in \in {[l |-> lPositions.positions, r |-> rPositions.positions,
                            lOffset |-> lOffset, rOffset |-> rOffset, mode |-> mode]} })

(***************************************************************************)
(* Results: Go's (bool, error) and (tsPositionSet, error), as [ret, err].  *)
(* A result also carries calls, the history of the evalWithinFollowedBy    *)
(* calls made to compute it, each as [node, out] with out the (ret, err)   *)
(* the call returned.  The history is write-only: no ret or err depends on *)
(* it.                                                                     *)
(***************************************************************************)
Result(ret, e) == [ret |-> ret, err |-> e, calls |-> {}]

\* res, reached after the calls of the results in before.
After(before, res) == [res EXCEPT !.calls = @ \cup UNION { x.calls : x \in before }]

\* The result of a call of evalWithinFollowedBy on node, recorded.
Recorded(node, res) ==
    [res EXCEPT !.calls = @ \cup {[node |-> node, out |-> [ret |-> res.ret, err |-> res.err]]}]

(***************************************************************************)
(* evalWithinFollowedBy (eval.go:203-328): the position-set evaluator.     *)
(*   PrefixScan          the loop of eval.go:223-229, from index j on      *)
(*   WithinLeaf          eval.go:205-237, the leaf case                    *)
(*   AlignedWidth        eval.go:250-253 and 301-304                       *)
(*   OrMode              eval.go:257-269: [mode, invertResults]            *)
(*   WithinOr            eval.go:250-275, once both operands are evaluated *)
(*   WithinNot           eval.go:281                                       *)
(*   AndMode             eval.go:309-319: [mode, invertResults]            *)
(*   FollowedByLOffset   eval.go:298                                       *)
(*   FollowedByWidth     eval.go:299                                       *)
(*   WithinAnd           eval.go:297-325, once both operands are evaluated *)
(***************************************************************************)
RECURSIVE PrefixScan(_, _, _)
PrefixScan(target, j, ret) ==
    IF j < Len(v)
    THEN IF ~HasPrefix(v[j + 1].lexeme, target)
         THEN ret
         ELSE PrefixScan(target, j + 1, ret \o v[j + 1].positions)
    ELSE ret

WithinLeaf(node) ==
    LET target == node.term.lexeme
        i == Search(target)
    IN  IF i >= Len(v)
        THEN Result(EmptyPositionSet, Nil)
        ELSE IF PrefixMatch(node)
        THEN Result(PositionSet(SortAndUniqTSPositions(PrefixScan(target, i, <<>>)),
                                0, FALSE), Nil)
        ELSE IF v[i + 1].lexeme # target
        THEN Result(EmptyPositionSet, Nil)
        ELSE Result(PositionSet(v[i + 1].positions, 0, FALSE), Nil)

AlignedWidth(lWidth, rWidth) == IF rWidth > lWidth THEN rWidth ELSE lWidth

\* Variant: or emits the union of the listed positions whatever the
\* operands' invert flags, and inverts when either operand is inverted.
OrModeUnion(lInvert, rInvert) ==
    [mode |-> {emitMatches, emitLeftUnmatched, emitRightUnmatched},
     invertResults |-> lInvert \/ rInvert]

OrMode(lInvert, rInvert) ==
    IF lInvert /\ rInvert
    THEN [mode |-> {emitMatches}, invertResults |-> TRUE]
    ELSE IF lInvert
    THEN [mode |-> {emitLeftUnmatched}, invertResults |-> TRUE]
    ELSE IF rInvert
    THEN [mode |-> {emitRightUnmatched}, invertResults |-> TRUE]
    ELSE [mode |-> {emitMatches, emitLeftUnmatched, emitRightUnmatched},
          invertResults |-> FALSE]

WithinOr(lPositions, rPositions) ==
    LET width == AlignedWidth(lPositions.width, rPositions.width)
        lOffset == width - lPositions.width
        rOffset == width - rPositions.width
        m == OrMode(lPositions.invert, rPositions.invert)
    IN  Once({ PositionSet(ret.positions, width,
                           IF m.invertResults THEN TRUE ELSE ret.invert) :
                   ret \in {EvalFollowedBy(lPositions, rPositions, lOffset, rOffset,
                                           m.mode)} })

WithinNot(ret) == [ret EXCEPT !.invert = ~@]

AndMode(lInvert, rInvert) ==
    IF lInvert /\ rInvert
    THEN [mode |-> {emitMatches, emitLeftUnmatched, emitRightUnmatched},
          invertResults |-> TRUE]
    ELSE IF lInvert
    THEN [mode |-> {emitRightUnmatched}, invertResults |-> FALSE]
    ELSE IF rInvert
    THEN [mode |-> {emitLeftUnmatched}, invertResults |-> FALSE]
    ELSE [mode |-> {emitMatches}, invertResults |-> FALSE]

\* Variant: the left operand is not shifted by the distance.
LOffsetWithoutDistance(followedN, rWidth) == rWidth

\* Variant: the left operand is not shifted by the right operand's width.
LOffsetWithoutRightWidth(followedN, rWidth) == followedN

FollowedByLOffset(followedN, rWidth) == followedN + rWidth

FollowedByWidth(lOffset, lWidth) == lOffset + lWidth

WithinAnd(node, lPositions, rPositions) ==
    LET followed == node.op = "followedby"
        aligned == AlignedWidth(lPositions.width, rPositions.width)
        lOffset == IF followed
                   THEN FollowedByLOffset(node.followedN, rPositions.width)
                   ELSE aligned - lPositions.width
        rOffset == IF followed THEN 0 ELSE aligned - rPositions.width
        width == IF followed
                 THEN FollowedByWidth(lOffset, lPositions.width)
                 ELSE aligned
        m == AndMode(lPositions.invert, rPositions.invert)
    IN  Once({ PositionSet(ret.positions, width,
                           IF m.invertResults THEN TRUE ELSE ret.invert) :
                   ret \in {EvalFollowedBy(lPositions, rPositions, lOffset, rOffset,
                                           m.mode)} })

RECURSIVE EvalWithinFollowedBy(_)
EvalWithinFollowedBy(node) ==
    Recorded(node,
        CASE node.op = "invalid" -> WithinLeaf(node)
          [] node.op \in {"or", "followedby", "and"} ->
                Once({
                    IF l.err # Nil
                    THEN After({l}, Result(EmptyPositionSet, l.err))
                    ELSE Once({
                        IF r.err # Nil
                        THEN After({l, r}, Result(EmptyPositionSet, r.err))
                        ELSE After({l, r},
                                   Result(IF node.op = "or"
                                          THEN WithinOr(l.ret, r.ret)
                                          ELSE WithinAnd(node, l.ret, r.ret), Nil))
                        : r \in {EvalWithinFollowedBy(node.r)} })
                    : l \in {EvalWithinFollowedBy(node.l)} })
          [] node.op = "not" ->
                Once({
                    IF ret.err # Nil
                    THEN After({ret}, Result(EmptyPositionSet, ret.err))
                    ELSE After({ret}, Result(WithinNot(ret.ret), Nil))
                    : ret \in {EvalWithinFollowedBy(node.l)} })
          [] OTHER -> Result(EmptyPositionSet, AssertionFailed))

(***************************************************************************)
(* evalNode (eval.go:42-93): the boolean evaluator.                        *)
(*   LeafMatches       eval.go:58-61, the test of the entry the search     *)
(*                     stopped at                                          *)
(*   AndShortCircuits  eval.go:67, "if err != nil || !l"                   *)
(*   OrShortCircuits   eval.go:77, "if l"                                  *)
(*   NotResult         eval.go:83-84, "return !ret, err"                   *)
(*   FollowedByMatched eval.go:90, "len(positions.positions) > 0"          *)
(***************************************************************************)
\* Variant: the prefix marker is ignored and every leaf is matched exactly.
LeafMatchesExactOnly(lexeme, target, prefixMatch) == lexeme = target

LeafMatches(lexeme, target, prefixMatch) ==
    IF prefixMatch THEN HasPrefix(lexeme, target) ELSE lexeme = target

\* Variant: and stops on an error only, and evaluates r after a false l.
AndStopsOnErrorOnly(l) == l.err # Nil

AndShortCircuits(l) == l.err # Nil \/ ~l.ret

OrShortCircuits(l) == l.ret

NotResult(operand) == After({operand}, Result(~operand.ret, operand.err))

FollowedByMatched(positions) == Len(positions.positions) > 0

RECURSIVE EvalNode(_)
EvalNode(node) ==
    CASE node.op = "invalid" ->
            LET target == node.term.lexeme
                i == Search(target)
            IN  IF i < Len(v)
                THEN Result(LeafMatches(v[i + 1].lexeme, target, PrefixMatch(node)), Nil)
                ELSE Result(FALSE, Nil)
      [] node.op = "and" ->
            Once({
                IF AndShortCircuits(l)
                THEN After({l}, Result(FALSE, l.err))
                ELSE After({l}, EvalNode(node.r))
                : l \in {EvalNode(node.l)} })
      [] node.op = "or" ->
            Once({
                IF l.err # Nil THEN After({l}, Result(FALSE, l.err))
                ELSE IF OrShortCircuits(l) THEN After({l}, Result(TRUE, Nil))
                ELSE After({l}, EvalNode(node.r))
                : l \in {EvalNode(node.l)} })
      [] node.op = "not" ->
            Once({ NotResult(ret) : ret \in {EvalNode(node.l)} })
      [] node.op = "followedby" ->
            Once({
                After({positions}, Result(FollowedByMatched(positions.ret), positions.err))
                : positions \in {EvalWithinFollowedBy(node)} })
      [] OTHER -> Result(FALSE, AssertionFailed)

(***************************************************************************)
(* EvalTSQuery (eval.go:23-29) and tsEvaluator.eval (eval.go:36-38).       *)
(***************************************************************************)
EvalTSQuery == EvalNode(q)

(***************************************************************************)
(* The lists handed to sortAndUniqTSPositions (eval.go:230) by the prefix  *)
(* leaves among the calls, with what it returned.                          *)
(***************************************************************************)
NormalizerCalls(within) ==
    LET leaves == { x.node : x \in { d \in within :
                        /\ d.node.op = "invalid"
                        /\ PrefixMatch(d.node)
                        /\ Search(d.node.term.lexeme) < Len(v) } }
    IN  UNION { { [in |-> in, out |-> SortAndUniqTSPositions(in)] :
                    in \in {PrefixScan(n.term.lexeme, Search(n.term.lexeme), <<>>)} } :
                n \in leaves }

(***************************************************************************)
(* The one operation: a call of EvalTSQuery on the vector and the query.   *)
(***************************************************************************)
Eval ==
    /\ pc = "start"
    /\ \E result \in {EvalTSQuery} :
           /\ matched' = result.ret
           /\ err' = result.err
           /\ calls' = result.calls
    /\ norms' = NormalizerCalls(calls')
    /\ pc' = "done"
    /\ UNCHANGED <<v, q>>

Next == Eval

(***************************************************************************)
(* Constructors of the inputs: query nodes and vector entries.             *)
(***************************************************************************)
Term(lexeme, weights) ==
    [lexeme |-> lexeme,
     positions |-> [i \in 1..Len(weights) |-> [weight |-> weights[i]]]]

Leaf(lexeme, weights) == [op |-> "invalid", term |-> Term(lexeme, weights)]
Exact(lexeme) == Leaf(lexeme, <<>>)
Not(x) == [op |-> "not", l |-> x]
And(x, y) == [op |-> "and", l |-> x, r |-> y]
Or(x, y) == [op |-> "or", l |-> x, r |-> y]
FollowedBy(x, y, n) == [op |-> "followedby", l |-> x, r |-> y, followedN |-> n]
Corrupt == [op |-> "corrupt"]

Entry(lexeme, positions) == [lexeme |-> lexeme, positions |-> positions]

(***************************************************************************)
(* Bounds of the input domains.                                            *)
(***************************************************************************)
MaxLexLen == 2      \* longest lexeme of the leaf-lookup inputs
MaxEntries == 3     \* most entries of a vector of the leaf-lookup inputs
MaxPos == 4         \* short position lists hold positions 1 .. MaxPos
MaxDist == 2        \* followed-by distances are 0 .. MaxDist

Chars == {1, 2}

(***************************************************************************)
(* Input domains.  A TSVector is sorted and unique by lexeme, and each of  *)
(* its position lists is ascending, free of duplicates and at most         *)
(* maxTSVectorPositions long: that is how the vector parser builds it.     *)
(***************************************************************************)
Strings(maxLen) == UNION { [1..n -> Chars] : n \in 1..maxLen }

RECURSIVE LexemesInOrder(_)
LexemesInOrder(S) ==
    IF S = {} THEN <<>>
    ELSE LET m == CHOOSE x \in S : \A y \in S : ~StrLess(y, x)
         IN  <<m>> \o LexemesInOrder(S \ {m})

RECURSIVE Ascending(_)
Ascending(S) ==
    IF S = {} THEN <<>>
    ELSE LET m == CHOOSE x \in S : \A y \in S : x <= y
         IN  <<m>> \o Ascending(S \ {m})

\* The vectors whose lexemes are at most n of the set L, with position
\* lists drawn from P.
Vectors(L, P, n) ==
    UNION { LET order == LexemesInOrder(S)
            IN  { [i \in 1..Len(order) |-> Entry(order[i], f[order[i]])] :
                    f \in [S -> P] } :
            S \in { T \in SUBSET L : Cardinality(T) <= n } }

ShortLists == { Ascending(S) : S \in SUBSET (1..MaxPos) }

\* The short lists of at most two positions.
PairLists == { l \in ShortLists : Len(l) <= 2 }

\* The list lo, lo + 1, ..., lo + n - 1.
Run(lo, n) == [i \in 1..n |-> lo + i - 1]

WeightLists ==
    { <<>>, <<"weightA">>, <<"weightStar">>,
      <<"weightStar", "weightA">>, <<"weightA", "weightStar">> }

(***************************************************************************)
(* The state before the call.                                              *)
(***************************************************************************)
Start(vectors, queries) ==
    /\ v \in vectors
    /\ q \in queries
    /\ matched = FALSE
    /\ err = Nil
    /\ calls = {}
    /\ norms = {}
    /\ pc = "start"

(***************************************************************************)
(* SpecLeaf: the boolean evaluator on a single leaf, exact or prefix, over *)
(* vectors of lexemes that are prefixes of one another.                    *)
(***************************************************************************)
LeafQueries == { Leaf(t, w) : t \in Strings(MaxLexLen), w \in WeightLists }

InitLeaf == Start(Vectors(Strings(MaxLexLen), {<<1>>}, MaxEntries), LeafQueries)

SpecLeaf == InitLeaf /\ [][Next]_vars

Lexemes == { v[i].lexeme : i \in 1..Len(v) }

IsLeaf(node) == node.op = "invalid"

IsPrefixLeaf(node) ==
    /\ IsLeaf(node)
    /\ node.term.positions # <<>>
    /\ Head(node.term.positions).weight = "weightStar"

IsExactLeaf(node) == IsLeaf(node) /\ ~IsPrefixLeaf(node)

\* C2: on a leaf the boolean evaluator returns true exactly when, in exact
\* mode, the leaf's lexeme is a lexeme of the vector and, in prefix mode,
\* some lexeme of the vector has the leaf's lexeme as a prefix; never an
\* error.
C2_LeafLookupExact ==
    (pc = "done" /\ IsLeaf(q)) =>
        /\ err = Nil
        /\ matched = IF IsPrefixLeaf(q)
                     THEN \E x \in Lexemes : HasPrefix(x, q.term.lexeme)
                     ELSE q.term.lexeme \in Lexemes

\* C2 witness: a prefix leaf matched by an entry that is neither the first
\* of the vector nor equal to the target, with a smaller lexeme before it.
C2_Witness ==
    /\ pc = "done"
    /\ IsPrefixLeaf(q)
    /\ matched
    /\ q.term.lexeme \notin Lexemes
    /\ Len(v) >= 2
    /\ StrLess(v[1].lexeme, q.term.lexeme)

(***************************************************************************)
(* SpecBool: the boolean evaluator on trees of and, or, not and            *)
(* followed_by, two levels deep, over exact leaves and corrupt nodes.      *)
(***************************************************************************)
a == <<1>>
b == <<2>>
c == <<3>>

OneLevel(operands) ==
    operands
        \cup { Not(x) : x \in operands }
        \cup { And(x, y) : x \in operands, y \in operands }
        \cup { Or(x, y) : x \in operands, y \in operands }
        \cup { FollowedBy(x, y, 1) : x \in operands, y \in operands }

BoolQueries == OneLevel(OneLevel({Exact(a), Exact(b), Corrupt}))

InitBool == Start(Vectors({a, b}, {<<1>>}, 2), BoolQueries)

SpecBool == InitBool /\ [][Next]_vars

\* The reference meaning of a tree of and, or, not over leaves.
RECURSIVE WellFormedBool(_)
WellFormedBool(node) ==
    CASE IsLeaf(node) -> TRUE
      [] node.op = "not" -> WellFormedBool(node.l)
      [] node.op \in {"and", "or"} -> WellFormedBool(node.l) /\ WellFormedBool(node.r)
      [] OTHER -> FALSE

RECURSIVE Truth(_)
Truth(node) ==
    CASE IsPrefixLeaf(node) -> \E x \in Lexemes : HasPrefix(x, node.term.lexeme)
      [] IsExactLeaf(node) -> node.term.lexeme \in Lexemes
      [] node.op = "not" -> ~Truth(node.l)
      [] node.op = "and" -> Truth(node.l) /\ Truth(node.r)
      [] node.op = "or" -> Truth(node.l) \/ Truth(node.r)

\* Whether the tree holds a node with an unrecognized operator tag.
RECURSIVE HasCorrupt(_)
HasCorrupt(node) ==
    CASE IsLeaf(node) -> FALSE
      [] node.op = "not" -> HasCorrupt(node.l)
      [] node.op \in {"and", "or", "followedby"} -> HasCorrupt(node.l) \/ HasCorrupt(node.r)
      [] OTHER -> TRUE

\* C3: outside followed_by, and(l, r) with l false is (false, no error) and
\* or(l, r) with l true is (true, no error) whatever r is, a malformed tree
\* included; and a tree of and, or, not over leaves evaluates to its truth
\* table value without error.
C3_ShortCircuit ==
    pc = "done" =>
        /\ WellFormedBool(q) => (err = Nil /\ matched = Truth(q))
        /\ (q.op = "and" /\ WellFormedBool(q.l) /\ ~Truth(q.l)) =>
               (err = Nil /\ matched = FALSE)
        /\ (q.op = "or" /\ WellFormedBool(q.l) /\ Truth(q.l)) =>
               (err = Nil /\ matched = TRUE)

\* C3 witness: an and whose left operand is false and whose right operand
\* holds a corrupt node, and that returned false without error.
C3_Witness ==
    /\ pc = "done"
    /\ q.op = "and"
    /\ WellFormedBool(q.l)
    /\ ~Truth(q.l)
    /\ HasCorrupt(q.r)
    /\ err = Nil
    /\ matched = FALSE

KnownOps == {"invalid", "and", "or", "not", "followedby"}

\* The nodes evalWithinFollowedBy(node) is called on: a right operand is
\* visited only when the left one returned no error (eval.go:241-248,
\* 289-296).
RECURSIVE WithinVisited(_)
WithinVisited(node) ==
    CASE node.op \in {"or", "and", "followedby"} ->
            {node} \cup WithinVisited(node.l) \cup
                (IF EvalWithinFollowedBy(node.l).err # Nil THEN {}
                 ELSE WithinVisited(node.r))
      [] node.op = "not" -> {node} \cup WithinVisited(node.l)
      [] OTHER -> {node}

\* The nodes the boolean evaluator visits, those handed to the
\* position-set evaluator included.
RECURSIVE NodeVisited(_)
NodeVisited(node) ==
    CASE node.op = "and" ->
            {node} \cup NodeVisited(node.l) \cup
                (IF AndShortCircuits(EvalNode(node.l)) THEN {} ELSE NodeVisited(node.r))
      [] node.op = "or" ->
            {node} \cup NodeVisited(node.l) \cup
                (IF EvalNode(node.l).err # Nil \/ OrShortCircuits(EvalNode(node.l))
                 THEN {} ELSE NodeVisited(node.r))
      [] node.op = "not" -> {node} \cup NodeVisited(node.l)
      [] node.op = "followedby" -> WithinVisited(node)
      [] OTHER -> {node}

CorruptReached ==
    \E n \in NodeVisited(q) : n.op \notin KnownOps

\* C5: when a node with an unrecognized operator tag is reached, EvalTSQuery
\* returns an error and matched = false, whatever encloses the node.
C5_ErrorWithoutResult ==
    (pc = "done" /\ CorruptReached) => (err # Nil /\ matched = FALSE)

(***************************************************************************)
(* Helpers of the properties of the position-set evaluator.                *)
(***************************************************************************)
Range(seq) == { seq[i] : i \in 1..Len(seq) }

\* The occurrence positions of a lexeme in the vector: none when absent.
Occurrences(lexeme) ==
    UNION { Range(v[i].positions) : i \in { j \in 1..Len(v) : v[j].lexeme = lexeme } }

\* What the position-set evaluator returned for the node.
Returned(node) == (CHOOSE x \in calls : x.node = node).out.ret

StrictlyAscending(seq) == \A i \in 1..(Len(seq) - 1) : seq[i] < seq[i + 1]

IsPair(node) == node.op = "followedby" /\ IsExactLeaf(node.l) /\ IsExactLeaf(node.r)

IsLeftChain(node) == node.op = "followedby" /\ IsPair(node.l) /\ IsExactLeaf(node.r)

IsRightChain(node) == node.op = "followedby" /\ IsExactLeaf(node.l) /\ IsPair(node.r)

(***************************************************************************)
(* SpecPair: followed_by of two exact leaves over vectors of the lexemes   *)
(* a and b with short position lists.                                      *)
(***************************************************************************)
Dists == 0..MaxDist

PairQueries ==
    { FollowedBy(Exact(x), Exact(y), d) : x \in {a, b}, y \in {a, b}, d \in Dists }

InitPair == Start(Vectors({a, b}, ShortLists, 2), PairQueries)

SpecPair == InitPair /\ [][Next]_vars

\* C1: followed_by(l, r, d) over exact leaves matches, without error,
\* exactly when l occurs at some position p and r occurs at p + d.
C1_ProximityExact ==
    (pc = "done" /\ IsPair(q)) =>
        /\ err = Nil
        /\ matched = \E p \in Occurrences(q.l.term.lexeme) :
                         p + q.followedN \in Occurrences(q.r.term.lexeme)

\* C1 witness: both terms occur, only in the opposite order, and the query
\* does not match.
C1_Witness ==
    /\ pc = "done"
    /\ IsPair(q)
    /\ q.followedN > 0
    /\ \E p \in Occurrences(q.r.term.lexeme) :
           p + q.followedN \in Occurrences(q.l.term.lexeme)
    /\ Cardinality(Occurrences(q.l.term.lexeme)) >= 2
    /\ ~matched

(***************************************************************************)
(* Spec: chains of two followed_by over exact leaves, in both nestings,    *)
(* over vectors of the lexemes a, b, c with lists of at most two           *)
(* positions.                                                              *)
(***************************************************************************)
ChainDists == 1..MaxDist

\* The leaves of a chain: all distinct, or coinciding in each possible way.
ChainLeaves == { <<a, b, c>>, <<a, a, b>>, <<a, b, a>>, <<a, b, b>>, <<a, a, a>> }

LeftChain(x, y, z, d1, d2) == FollowedBy(FollowedBy(Exact(x), Exact(y), d1), Exact(z), d2)
RightChain(x, y, z, d1, d2) == FollowedBy(Exact(x), FollowedBy(Exact(y), Exact(z), d2), d1)

ChainQueries ==
    { LeftChain(t[1], t[2], t[3], d1, d2) :
        t \in ChainLeaves, d1 \in ChainDists, d2 \in ChainDists }
        \cup
    { RightChain(t[1], t[2], t[3], d1, d2) :
        t \in ChainLeaves, d1 \in ChainDists, d2 \in ChainDists }

Init == Start(Vectors({a, b, c}, PairLists, 3), ChainQueries)

Spec == Init /\ [][Next]_vars

\* Whether x, y, z occur at p, p + d1, p + d1 + d2 for some p.
ChainOccurs(x, y, z, d1, d2) ==
    \E p \in Occurrences(x) :
        /\ p + d1 \in Occurrences(y)
        /\ p + d1 + d2 \in Occurrences(z)

\* C9: each nesting of a chain a <d1> b <d2> c matches exactly when a, b, c
\* occur at p, p + d1, p + d1 + d2 for some p, so the two nestings, both
\* among the queries for every choice of leaves and distances, agree; and
\* the width of either composite result is d1 + d2.
C9_ChainNestingAgrees ==
    /\ (pc = "done" /\ IsLeftChain(q)) =>
          LET x == q.l.l.term.lexeme
              y == q.l.r.term.lexeme
              z == q.r.term.lexeme
              d1 == q.l.followedN
              d2 == q.followedN
          IN  /\ err = Nil
              /\ matched = ChainOccurs(x, y, z, d1, d2)
              /\ Returned(q).width = d1 + d2
    /\ (pc = "done" /\ IsRightChain(q)) =>
          LET x == q.l.term.lexeme
              y == q.r.l.term.lexeme
              z == q.r.r.term.lexeme
              d1 == q.followedN
              d2 == q.r.followedN
          IN  /\ err = Nil
              /\ matched = ChainOccurs(x, y, z, d1, d2)
              /\ Returned(q).width = d1 + d2

\* C9 witness: a right-nested chain with two different distances that
\* matches.
C9_Witness ==
    /\ pc = "done"
    /\ IsRightChain(q)
    /\ q.followedN # q.r.followedN
    /\ matched
    /\ Returned(q).width = q.followedN + q.r.followedN

(***************************************************************************)
(* SpecNeg: followed_by whose left operand is a tree of and, or, not two   *)
(* levels deep over the exact leaves a and b, and whose right operand is a *)
(* leaf or a negated leaf.                                                 *)
(***************************************************************************)
SetLevel(operands) ==
    operands
        \cup { Not(x) : x \in operands }
        \cup { And(x, y) : x \in operands, y \in operands }
        \cup { Or(x, y) : x \in operands, y \in operands }

SetTrees == SetLevel(SetLevel({Exact(a), Exact(b)}))

NegQueries ==
    { FollowedBy(t, u, 1) : t \in SetTrees, u \in {Exact(a), Not(Exact(b))} }

InitNeg == Start(Vectors({a, b}, PairLists, 2), NegQueries)

SpecNeg == InitNeg /\ [][Next]_vars

RECURSIVE IsSetTree(_)
IsSetTree(node) ==
    CASE IsLeaf(node) -> IsExactLeaf(node)
      [] node.op = "not" -> IsSetTree(node.l)
      [] node.op \in {"and", "or"} -> IsSetTree(node.l) /\ IsSetTree(node.r)
      [] OTHER -> FALSE

\* Whether position p belongs to the set the tree stands for: leaves are
\* occurrence sets, and is intersection, or is union, not is complement.
RECURSIVE Holds(_, _)
Holds(node, p) ==
    CASE IsLeaf(node) -> p \in Occurrences(node.term.lexeme)
      [] node.op = "not" -> ~Holds(node.l, p)
      [] node.op = "and" -> Holds(node.l, p) /\ Holds(node.r, p)
      [] node.op = "or" -> Holds(node.l, p) \/ Holds(node.r, p)

\* Whether position p belongs to the set the result denotes.
Denotes(positions, p) == (p \in Range(positions.positions)) # positions.invert

\* Every position of the vectors, and one position below and above them.
Universe == 0..(MaxPos + 1)

\* C4: for a tree of and, or, not over exact leaves, the set denoted by the
\* position-set evaluator's result (the listed positions, or their
\* complement when invert is set) is the set the tree stands for.
C4_DeMorganOnPositions ==
    \A x \in calls :
        IsSetTree(x.node) =>
            /\ x.out.err = Nil
            /\ x.out.ret.width = 0
            /\ Range(x.out.ret.positions) \subseteq Universe
            /\ \A p \in Universe : Denotes(x.out.ret, p) = Holds(x.node, p)

\* C4 witness: an or of a negated leaf and an and of two leaves, with an
\* inverted result that lists a position.
C4_Witness ==
    \E x \in calls :
        /\ x.node.op = "or"
        /\ x.node.l.op = "not"
        /\ x.node.r.op = "and"
        /\ x.out.err = Nil
        /\ x.out.ret.invert
        /\ x.out.ret.positions # <<>>

\* Whether the position set has a matching position: a listed one, or,
\* when invert is set, one of the 2^16 positions that is not listed.
MatchExists(positions) ==
    IF positions.invert
    THEN Cardinality(Range(positions.positions)) < 65536
    ELSE positions.positions # <<>>

\* C10: on a followed_by node the boolean evaluator returns true exactly
\* when the returned position set has a matching position, the unlisted
\* positions being the matching ones when invert is set.
C10_MatchCountsInvert ==
    (pc = "done" /\ q.op = "followedby" /\ err = Nil) =>
        matched = MatchExists(Returned(q))

(***************************************************************************)
(* SpecWide: followed_by with distances up to 16384, the largest the query *)
(* parser accepts, over positions up to 16383, the largest the vector      *)
(* parser accepts.                                                         *)
(***************************************************************************)
WideDists == {1, 16384}

FarLists == { Ascending(S) : S \in SUBSET {1, 2, 16383} }

\* A followed_by of two followed_by, of width 3 * n.
Wide(n) ==
    FollowedBy(FollowedBy(Exact(a), Exact(b), n), FollowedBy(Exact(a), Exact(b), n), n)

WideOperands ==
    { Exact(b), Not(Exact(b)) }
        \cup { Wide(n) : n \in WideDists }
        \cup { Not(Wide(n)) : n \in WideDists }

WideQueries ==
    { FollowedBy(Exact(x), y, d) : x \in {a, b}, y \in WideOperands, d \in WideDists }

InitWide == Start(Vectors({a, b}, FarLists, 2), WideQueries)

SpecWide == InitWide /\ [][Next]_vars

\* C6: every position list the position-set evaluator returns is strictly
\* ascending.
C6_ListsStrictlyAscending ==
    \A x \in calls : StrictlyAscending(x.out.ret.positions)

(***************************************************************************)
(* SpecLong: position lists at the length limit, over the lexemes 1, 11    *)
(* and 12, merged by or and and, and concatenated by a prefix leaf.        *)
(***************************************************************************)
aa == <<1, 1>>
ab == <<1, 2>>

LongLists ==
    { Run(lo, n) : lo \in {1, 2},
                   n \in {maxTSVectorPositions - 1, maxTSVectorPositions} }

LongOperands ==
    { Leaf(a, <<"weightStar">>),
      Exact(aa),
      Or(Exact(aa), Exact(ab)),
      And(Exact(aa), Exact(ab)),
      Or(Leaf(a, <<"weightStar">>), Not(Exact(ab))) }

LongQueries == { FollowedBy(x, Exact(a), 1) : x \in LongOperands }

InitLong == Start(Vectors({a, aa, ab}, LongLists, 3), LongQueries)

SpecLong == InitLong /\ [][Next]_vars

\* C7: every position list the position-set evaluator returns has at most
\* maxTSVectorPositions entries.
C7_AtMostMaxPositions ==
    \A x \in calls : Len(x.out.ret.positions) <= maxTSVectorPositions

\* The list holds the n smallest distinct positions of the input, in
\* ascending order.
SmallestDistinct(out, in, n) ==
    /\ Len(out) = n
    /\ StrictlyAscending(out)
    /\ Range(out) \subseteq Range(in)
    /\ \A x \in Range(in) \ Range(out) : \A y \in Range(out) : y < x

\* C8 as stated: sortAndUniqTSPositions applied to a list longer than
\* maxTSVectorPositions returns exactly maxTSVectorPositions entries, the
\* smallest positions in ascending order.
C8_LongInputGivesExactlyMax ==
    \A x \in norms :
        Len(x.in) > maxTSVectorPositions =>
            SmallestDistinct(x.out, x.in, maxTSVectorPositions)

\* C8: sortAndUniqTSPositions returns the smallest distinct positions of
\* its input in ascending order, as many as the input has up to
\* maxTSVectorPositions: exactly maxTSVectorPositions when the input holds
\* more distinct positions than that.
C8_SmallestDistinctUpToMax ==
    \A x \in norms :
        SmallestDistinct(x.out, x.in,
                         Min(maxTSVectorPositions, Cardinality(Range(x.in))))

\* C8 witness: an input with duplicates and with more than
\* maxTSVectorPositions distinct positions, cut to maxTSVectorPositions.
C8_Witness ==
    \E x \in norms :
        /\ Cardinality(Range(x.in)) > maxTSVectorPositions
        /\ Len(x.in) > Cardinality(Range(x.in))
        /\ Len(x.out) = maxTSVectorPositions

====
